---- MODULE Spec2Model ----
(***************************************************************************)
(* Model of the CENDOJ MCP server (src/index.js lines 1-220) and of the    *)
(* MCPClient of the scraper (src/index.js lines 222-452): JSON-RPC 2.0     *)
(* envelopes over a WebSocket.                                             *)
(*                                                                         *)
(* Spec        the MCPClient: its transport's events arrive in any order   *)
(*             the ws library allows and carry any message text.           *)
(* LiveSpec    Spec with the event loop's fairness.                        *)
(* ServerSpec  the server's connection handler, fed any message text.      *)
(***************************************************************************)
EXTENDS Integers, Sequences, FiniteSets, TLC

VARIABLES
  ws,        \* MCPClient.ws and its readyState
  pending,   \* MCPClient.pending: id -> index in calls of the call whose continuations it holds
  nextId,    \* MCPClient.nextId
  connectP,  \* the promise connect() returned
  calls,     \* one record per request() invocation: its id and its promise
  outbox,    \* the texts the client handed to an open transport
  crashed,   \* a listener threw: an uncaught exception ends the process
  listening, \* the message listener is registered on this.ws
  cliRead,   \* how many of the texts sent on connection 1 the client's transport delivered
  ev,        \* the last handler that ran, and the text it was given
  conns,     \* server: per connection, whether it was accepted
  received,  \* server: per connection, the texts received so far
  sent       \* server: per connection, the texts sent so far

clientVars == <<ws, pending, nextId, connectP, calls, outbox, crashed, listening>>
serverVars == <<conns, received, sent>>
vars == <<ws, pending, nextId, connectP, calls, outbox, crashed, listening, cliRead, ev, conns, received, sent>>

(***************************************************************************)
(* Bounds of the model.                                                    *)
(***************************************************************************)
MaxCalls == 3
MaxServerMsgs == 2

(***************************************************************************)
(* JSON values. A scalar is a record [t, n, s]; the tag t fixes which of   *)
(* n and s is meaningful.                                                  *)
(***************************************************************************)
Undefined == [t |-> "undefined", n |-> 0, s |-> ""]
Absent == [t |-> "absent", n |-> 0, s |-> ""]
Null == [t |-> "null", n |-> 0, s |-> ""]
Num(k) == [t |-> "number", n |-> k, s |-> ""]
Str(x) == [t |-> "string", n |-> 0, s |-> x]
ErrorObj(code, message) == [t |-> "errorObject", n |-> code, s |-> message]

\* JavaScript truthiness of a scalar (if (msg.error), params.arguments || {}).
Truthy(v) ==
  /\ v.t \notin {"undefined", "absent", "null"}
  /\ ~(v.t = "number" /\ v.n = 0)
  /\ ~(v.t = "string" /\ v.s = "")

\* A member as JSON.stringify writes it: an undefined member is left out.
ToWire(v) == IF v = Undefined THEN Absent ELSE v
\* A member as a property read finds it: a member that is not there reads undefined.
FromWire(v) == IF v = Absent THEN Undefined ELSE v

NoArguments == [t |-> "absent", sala |-> Absent, juez |-> Absent, id |-> Absent]
Arguments(sala, juez, id) == [t |-> "object", sala |-> sala, juez |-> juez, id |-> id]
NoParams == [t |-> "absent", name |-> Absent, arguments |-> NoArguments]
UndefinedParams == [t |-> "undefined", name |-> Absent, arguments |-> NoArguments]
Params(name, arguments) == [t |-> "object", name |-> name, arguments |-> arguments]
EmptyParams == Params(Absent, NoArguments)

(***************************************************************************)
(* Message texts. shape "garbage" is text JSON.parse rejects; "null" and   *)
(* "number" are texts of JSON values that are not objects; "object" is an  *)
(* object with the members that are not Absent.                            *)
(***************************************************************************)
Text(shape, jsonrpc, method, params, id, result, error) ==
  [shape |-> shape, jsonrpc |-> jsonrpc, method |-> method, params |-> params,
   id |-> id, result |-> result, error |-> error]
NoText == Text("none", Absent, Absent, NoParams, Absent, Absent, Absent)
GarbageText == Text("garbage", Absent, Absent, NoParams, Absent, Absent, Absent)
NullText == Text("null", Absent, Absent, NoParams, Absent, Absent, Absent)
NumberText == Text("number", Absent, Absent, NoParams, Absent, Absent, Absent)

\* JSON.parse: a SyntaxError, or the value the text denotes.
JSONparse(raw) ==
  IF raw.shape = "garbage" THEN [ok |-> FALSE, v |-> NoText] ELSE [ok |-> TRUE, v |-> raw]

\* Whether reading a property of v throws a TypeError (v is null or undefined).
ReadThrows(v) == v.shape = "null"

\* v.member for a parsed value v whose properties can be read.
Get(v, member) == IF v.shape = "object" THEN FromWire(v[member]) ELSE Undefined

(***************************************************************************)
(* MCPClient                                                               *)
(***************************************************************************)
NoKey == 0 - 1
EmptyMap == [k \in {} |-> 0]
MapSet(m, k, v) == [x \in DOMAIN m \cup {k} |-> IF x = k THEN v ELSE m[x]]
MapDelete(m, k) == [x \in DOMAIN m \ {k} |-> m[x]]

\* this.nextId = 1
FirstId == 1
\* this.nextId++
NextIdAfterReuse(n) == n
NextIdAfter(n) == n + 1

\* this.pending.get(key): the key of the record found, NoKey when there is none.
\* A Map finds a number only under that number.
PendingGet(p, key) == IF key.t = "number" /\ key.n \in DOMAIN p THEN key.n ELSE NoKey

\* The message listener's choice of the record a parsed message settles.
RouteOldest(msg, p) ==
  IF DOMAIN p = {} THEN NoKey ELSE CHOOSE k \in DOMAIN p : \A j \in DOMAIN p : k <= j
Route(msg, p) ==
  IF Get(msg, "id") = Num(0) THEN NoKey ELSE PendingGet(p, Get(msg, "id"))

\* The errors a call's promise is rejected with.
ClosedError == [t |-> "Error", n |-> 0, s |-> "Conexion cerrada inesperadamente"]
RpcError(error) ==
  [t |-> "RpcError",
   n |-> IF error.t = "errorObject" THEN error.n ELSE 0,
   s |-> IF error.t = "errorObject" THEN error.s ELSE "undefined"]
NullSendError == [t |-> "TypeError", n |-> 0, s |-> "Cannot read properties of null (reading 'send')"]
NotOpenError == [t |-> "Error", n |-> 0, s |-> "WebSocket is not open"]

\* What the message listener does with the record it found.
Outcome(msg) ==
  IF Truthy(Get(msg, "error"))
  THEN [st |-> "rejected", val |-> RpcError(Get(msg, "error"))]
  ELSE [st |-> "resolved", val |-> Get(msg, "result")]

\* A continuation of the promise (resolve or reject) is invoked: the first
\* settlement of a promise stands, a later one is ignored.
Invoke(call, st, val, onClose) ==
  [call EXCEPT !.st = IF call.st = "pending" THEN st ELSE @,
               !.val = IF call.st = "pending" THEN val ELSE @,
               !.invoked = @ + 1,
               !.closeRejects = IF onClose THEN @ + 1 ELSE @]

\* this.ws.send(text) in request(): "sent", "throw" or "drop". Without a
\* transport the property read throws; a connecting WebSocket throws; one that
\* is closing, has failed or is closed throws or drops the text, depending on
\* the ws release.
SendOutcomes(w) ==
  CASE w = "null" -> {"throw"}
    [] w = "connecting" -> {"throw"}
    [] w = "open" -> {"sent"}
    [] OTHER -> {"throw", "drop"}
SendError(w) == IF w = "null" THEN NullSendError ELSE NotOpenError

\* The (method, params) pairs request() is called with.
RequestInputs == { <<Str("tools/list"), UndefinedParams>> }

\* JSON.stringify({ jsonrpc: '2.0', method, params, id })
RequestText(method, params, id) ==
  Text("object", Str("2.0"), ToWire(method), params, ToWire(Num(id)), Absent, Absent)

Event(type, raw) == [type |-> type, raw |-> raw]

\* connect(): new WebSocket(url) and the four listeners. main() calls it once.
connectLate ==
  /\ ~crashed
  /\ ws = "null"
  /\ ws' = "connecting"
  /\ listening' = FALSE
  /\ connectP' = "pending"
  /\ ev' = Event("connect", NoText)
  /\ UNCHANGED <<pending, nextId, calls, outbox, crashed, serverVars, cliRead>>
connect ==
  /\ ~crashed
  /\ ws = "null"
  /\ ws' = "connecting"
  /\ listening' = TRUE
  /\ connectP' = "pending"
  /\ ev' = Event("connect", NoText)
  /\ UNCHANGED <<pending, nextId, calls, outbox, crashed, serverVars, cliRead>>

\* this.ws.on('open', () => resolve())
onOpen ==
  /\ ~crashed
  /\ ws = "connecting"
  /\ ws' = "open"
  /\ connectP' = IF connectP = "pending" THEN "resolved" ELSE connectP
  /\ ev' = Event("open", NoText)
  /\ UNCHANGED <<pending, nextId, calls, outbox, crashed, listening, serverVars, cliRead>>

\* this.ws.on('error', reject): the transport failed; its close event follows.
\* "failed" is a transport that never opened, "closing" one that had.
onError ==
  /\ ~crashed
  /\ ws \in {"connecting", "open", "aborting"}
  /\ ws' = IF ws = "open" THEN "closing" ELSE "failed"
  /\ connectP' = IF connectP = "pending" THEN "rejected" ELSE connectP
  /\ ev' = Event("error", NoText)
  /\ UNCHANGED <<pending, nextId, calls, outbox, crashed, listening, serverVars, cliRead>>

\* close(): if (this.ws) this.ws.close()
close ==
  /\ ~crashed
  /\ ws' = CASE ws = "connecting" -> "aborting"
             [] ws = "open" -> "closing"
             [] OTHER -> ws
  /\ ev' = Event("closeCall", NoText)
  /\ UNCHANGED <<pending, nextId, connectP, calls, outbox, crashed, listening, serverVars, cliRead>>

\* this.pending.clear()
ClearedKeepsAll(p) == p
Cleared(p) == EmptyMap

\* this.ws.on('close', ...): reject every pending record, clear the map.
onClose ==
  /\ ~crashed
  /\ ws \in {"open", "closing", "failed"}
  /\ ws' = "closed"
  /\ calls' = [c \in DOMAIN calls |->
                 IF \E k \in DOMAIN pending : pending[k] = c
                 THEN Invoke(calls[c], "rejected", ClosedError, TRUE)
                 ELSE calls[c]]
  /\ pending' = Cleared(pending)
  /\ ev' = Event("close", NoText)
  /\ UNCHANGED <<nextId, connectP, outbox, crashed, listening, serverVars, cliRead>>

\* request(method, params = {}). When send throws inside the executor, the
\* Promise constructor calls reject with what was thrown; the record stays.
request(method, params) ==
  /\ ~crashed
  /\ Len(calls) < MaxCalls
  /\ \E o \in SendOutcomes(ws) :
       LET id == nextId
           p == IF params = UndefinedParams THEN EmptyParams ELSE params
       IN /\ nextId' = NextIdAfter(nextId)
          /\ pending' = MapSet(pending, id, Len(calls) + 1)
          /\ calls' = Append(calls,
               [id |-> id,
                st |-> IF o = "throw" THEN "rejected" ELSE "pending",
                val |-> IF o = "throw" THEN SendError(ws) ELSE Undefined,
                sync |-> (o = "throw"),
                invoked |-> IF o = "throw" THEN 1 ELSE 0,
                closeRejects |-> 0])
          /\ outbox' = IF o = "sent" THEN Append(outbox, RequestText(method, p, id)) ELSE outbox
  /\ ev' = Event("request", NoText)
  /\ UNCHANGED <<ws, connectP, crashed, listening, serverVars, cliRead>>

\* this.ws.on('message', (raw) => { ... }): the listener, run on one text.
handleMessage(raw) ==
  /\ ~crashed
  /\ listening
  /\ ws \in {"open", "closing"}
  /\ LET parsed == JSONparse(raw)
     IN IF ~parsed.ok
        THEN UNCHANGED <<pending, calls, crashed>>
        ELSE IF ReadThrows(parsed.v)
        THEN crashed' = TRUE /\ UNCHANGED <<pending, calls>>
        ELSE LET msg == parsed.v
                 key == Route(msg, pending)
                 o == Outcome(msg)
             IN IF key = NoKey
                THEN UNCHANGED <<pending, calls, crashed>>
                ELSE /\ pending' = MapDelete(pending, key)
                     /\ calls' = [calls EXCEPT ![pending[key]] = Invoke(@, o.st, o.val, FALSE)]
                     /\ UNCHANGED crashed
  /\ ev' = Event("message", raw)
  /\ UNCHANGED <<ws, nextId, connectP, outbox, listening>>

\* The transport hands the listener a text, whatever the peer is.
onMessage(raw) == handleMessage(raw) /\ UNCHANGED <<serverVars, cliRead>>

\* The texts the transport may hand to the message listener.
ReplyIds == {Null} \cup {Num(k) : k \in 0..MaxCalls}
ClientInbox ==
  {GarbageText, NullText, NumberText}
  \cup {Text("object", Str("2.0"), Absent, NoParams, i, r, Absent) :
          i \in ReplyIds, r \in {Str("A"), Str("B")}}
  \cup {Text("object", Str("2.0"), Absent, NoParams, i, Absent, ErrorObj(0 - 32601, "Metodo desconocido")) :
          i \in ReplyIds}

Init ==
  /\ ws = "null"
  /\ pending = EmptyMap
  /\ nextId = FirstId
  /\ connectP = "none"
  /\ calls = <<>>
  /\ outbox = <<>>
  /\ crashed = FALSE
  /\ listening = FALSE
  /\ cliRead = 0
  /\ ev = Event("init", NoText)
  /\ conns = [c \in {1, 2} |-> "none"]
  /\ received = [c \in {1, 2} |-> <<>>]
  /\ sent = [c \in {1, 2} |-> <<>>]

Next ==
  \/ connect
  \/ onOpen
  \/ onError
  \/ close
  \/ onClose
  \/ \E i \in RequestInputs : request(i[1], i[2])
  \/ \E raw \in ClientInbox : onMessage(raw)

Spec == Init /\ [][Next]_vars

\* A transport that is closing or has failed does emit its close event, and the
\* event loop runs the listener of an emitted event.
closeAfterClosing == ws \in {"closing", "failed"} /\ onClose
LiveSpec == Spec /\ WF_vars(closeAfterClosing)

(***************************************************************************)
(* The server                                                              *)
(***************************************************************************)
\* const sentencias = [ ... ] (accents written without their diacritics)
sentencias ==
  << [id |-> 1, sala |-> "Sala de lo Social", juez |-> "Juan Garcia",
      cendoj_id |-> "28079150012015000001", resolucion |-> "Sentencia favorable"],
     [id |-> 2, sala |-> "Sala de Contencioso", juez |-> "Maria Lopez",
      cendoj_id |-> "28079150022015000002", resolucion |-> "Sentencia desestimada"],
     [id |-> 3, sala |-> "Sala de lo Penal", juez |-> "Carlos Martin",
      cendoj_id |-> "28079150032015000003", resolucion |-> "Sentencia condenatoria"] >>

\* The characters of the strings the store and the queries hold.
Chars(x) ==
  CASE x = "Sala de lo Social" -> <<"S", "a", "l", "a", " ", "d", "e", " ", "l", "o", " ", "S", "o", "c", "i", "a", "l">>
    [] x = "Sala de Contencioso" -> <<"S", "a", "l", "a", " ", "d", "e", " ", "C", "o", "n", "t", "e", "n", "c", "i", "o", "s", "o">>
    [] x = "Sala de lo Penal" -> <<"S", "a", "l", "a", " ", "d", "e", " ", "l", "o", " ", "P", "e", "n", "a", "l">>
    [] x = "Juan Garcia" -> <<"J", "u", "a", "n", " ", "G", "a", "r", "c", "i", "a">>
    [] x = "Maria Lopez" -> <<"M", "a", "r", "i", "a", " ", "L", "o", "p", "e", "z">>
    [] x = "Carlos Martin" -> <<"C", "a", "r", "l", "o", "s", " ", "M", "a", "r", "t", "i", "n">>
    [] x = "penal" -> <<"p", "e", "n", "a", "l">>
    [] x = "GARCIA" -> <<"G", "A", "R", "C", "I", "A">>
    [] x = "" -> <<>>

\* String.prototype.toLowerCase, on the letters above.
LowerChar(c) ==
  CASE c = "S" -> "s" [] c = "C" -> "c" [] c = "P" -> "p" [] c = "J" -> "j"
    [] c = "G" -> "g" [] c = "M" -> "m" [] c = "L" -> "l" [] c = "A" -> "a"
    [] c = "R" -> "r" [] c = "I" -> "i" [] OTHER -> c
toLowerCase(cs) == [i \in DOMAIN cs |-> LowerChar(cs[i])]
\* String.prototype.includes
includes(hay, needle) ==
  \E i \in 0..(Len(hay) - Len(needle)) : SubSeq(hay, i + 1, i + Len(needle)) = needle

\* A value inside a template literal.
Show(v) ==
  CASE v.t = "number" -> ToString(v.n)
    [] v.t = "string" -> v.s
    [] v.t = "null" -> "null"
    [] OTHER -> "undefined"

\* The result of initialize, and of the handshake.
ServerInfo ==
  [t |-> "serverInfo", protocolVersion |-> "2024-11-05",
   name |-> "Cendoj MCP Server", version |-> "1.0.0"]
\* The result of tools/list: each tool's name and required arguments.
ToolDescriptors ==
  [t |-> "tools",
   tools |-> << [name |-> "list_sentences", required |-> <<>>],
                [name |-> "search_by_sala", required |-> <<"sala">>],
                [name |-> "search_by_judge", required |-> <<"juez">>],
                [name |-> "get_sentence", required |-> <<"id">>] >>]

\* toolResult, and JSON.stringify(toolResult): undefined members are left out.
NoData == [t |-> "absent", items |-> <<>>]
ArrayData(items) == [t |-> "array", items |-> items]
ObjectData(item) == [t |-> "object", items |-> <<item>>]
ToolResult(data, count, query, error) ==
  [data |-> data, count |-> count, query |-> query, error |-> error]
StringifyToolResult(r) ==
  [shape |-> "object", data |-> r.data, count |-> ToWire(r.count),
   query |-> ToWire(r.query), error |-> ToWire(r.error)]
\* result: { content: [{ type: 'text', text: JSON.stringify(toolResult) }] }
Content(text) == [t |-> "content", text |-> text]

\* The switch on toolName: [threw, result]. toLowerCase is not a function of a
\* value that is not a string, and the store is not empty.
Threw == [threw |-> TRUE, result |-> ToolResult(NoData, Undefined, Undefined, Undefined)]
Returned(r) == [threw |-> FALSE, result |-> r]
\* case 'get_sentence'
GetSentenceByIndex(toolArgs) ==
  LET id == FromWire(toolArgs.id)
  IN IF id.t = "number" /\ (id.n + 1) \in DOMAIN sentencias
     THEN Returned(ToolResult(ObjectData(sentencias[id.n + 1]), Undefined, Undefined, Undefined))
     ELSE Returned(ToolResult(NoData, Undefined, Undefined,
                              Str("Sentencia " \o Show(id) \o " no encontrada")))
GetSentence(toolArgs) ==
  LET id == FromWire(toolArgs.id)
      found == {i \in DOMAIN sentencias : id = Num(sentencias[i].id)}
  IN IF found # {}
     THEN Returned(ToolResult(ObjectData(sentencias[CHOOSE i \in found : \A j \in found : i <= j]),
                              Undefined, Undefined, Undefined))
     ELSE Returned(ToolResult(NoData, Undefined, Undefined,
                              Str("Sentencia " \o Show(id) \o " no encontrada")))

\* default: of switch (toolName)
UnknownToolThrows(toolName) == Threw
UnknownTool(toolName) ==
  Returned(ToolResult(NoData, Undefined, Undefined,
                      Str("Herramienta desconocida: " \o Show(toolName))))

CallTool(toolName, toolArgs) ==
  CASE toolName = Str("list_sentences") ->
         Returned(ToolResult(ArrayData(sentencias), Num(Len(sentencias)), Undefined, Undefined))
    [] toolName = Str("search_by_sala") ->
         LET sala == FromWire(toolArgs.sala)
             Match(x) == includes(toLowerCase(Chars(x.sala)), toLowerCase(Chars(sala.s)))
             filtered == SelectSeq(sentencias, Match)
         IN IF sala.t # "string" THEN Threw
            ELSE Returned(ToolResult(ArrayData(filtered), Num(Len(filtered)), sala, Undefined))
    [] toolName = Str("search_by_judge") ->
         LET juez == FromWire(toolArgs.juez)
             Match(x) == includes(toLowerCase(Chars(x.juez)), toLowerCase(Chars(juez.s)))
             filtered_judge == SelectSeq(sentencias, Match)
         IN IF juez.t # "string" THEN Threw
            ELSE Returned(ToolResult(ArrayData(filtered_judge), Num(Len(filtered_judge)), juez, Undefined))
    [] toolName = Str("get_sentence") -> GetSentence(toolArgs)
    [] OTHER -> UnknownTool(toolName)

\* JSON.stringify(response)
ResultText(id, result) == Text("object", Str("2.0"), Absent, NoParams, ToWire(id), result, Absent)
ErrorText(id, code, message) ==
  Text("object", Str("2.0"), Absent, NoParams, ToWire(id), Absent, ErrorObj(code, message))
ParseErrorText == ErrorText(Null, 0 - 32700, "Parse error")

\* The handshake: JSON.stringify(initMessage)
InitMessageText == ResultText(Num(0), ServerInfo)

\* case 'tools/call': reading params.name throws when params is undefined.
ToolsCall(req) ==
  IF req.params.t # "object"
  THEN ParseErrorText
  ELSE LET toolName == FromWire(req.params.name)
           toolArgs == IF req.params.arguments.t = "object"
                       THEN req.params.arguments
                       ELSE Arguments(Absent, Absent, Absent)
           r == CallTool(toolName, toolArgs)
       IN IF r.threw
          THEN ParseErrorText
          ELSE ResultText(Get(req, "id"), Content(StringifyToolResult(r.result)))

\* ws.on('message', ...): the text the handler sends for the text it is given.
\* Whatever is thrown inside the try block is answered by the catch block.
Reply(raw) ==
  LET parsed == JSONparse(raw)
  IN IF ~parsed.ok \/ ReadThrows(parsed.v)
     THEN ParseErrorText
     ELSE LET req == parsed.v
              method == Get(req, "method")
              id == Get(req, "id")
          IN CASE method = Str("initialize") -> ResultText(id, ServerInfo)
               [] method = Str("tools/list") -> ResultText(id, ToolDescriptors)
               [] method = Str("tools/call") -> ToolsCall(req)
               [] OTHER -> ErrorText(id, 0 - 32601, "Metodo desconocido: " \o Show(method))

Conns == {1, 2}
ReceivedTotal == Len(received[1]) + Len(received[2])

\* wss.on('connection', (ws) => { ... ws.send(JSON.stringify(initMessage)); ... })
onConnectionSilent(c) ==
  /\ conns[c] = "none"
  /\ conns' = [conns EXCEPT ![c] = "open"]
  /\ ev' = Event("connection", NoText)
  /\ UNCHANGED <<received, sent, clientVars, cliRead>>
onConnection(c) ==
  /\ conns[c] = "none"
  /\ conns' = [conns EXCEPT ![c] = "open"]
  /\ sent' = [sent EXCEPT ![c] = Append(@, InitMessageText)]
  /\ ev' = Event("connection", NoText)
  /\ UNCHANGED <<received, clientVars, cliRead>>

\* ws.on('message', (message) => { ... }) of connection c
serverOnMessageDedup(c, raw) ==
  /\ conns[c] = "open"
  /\ ReceivedTotal < MaxServerMsgs
  /\ received' = [received EXCEPT ![c] = Append(@, raw)]
  /\ sent' = [sent EXCEPT ![c] =
               Append(@, IF \E d \in Conns : \E i \in DOMAIN received[d] : received[d][i] = raw
                         THEN ErrorText(Get(raw, "id"), 0 - 32600, "Duplicado")
                         ELSE Reply(raw))]
  /\ ev' = Event("serverMessage", raw)
  /\ UNCHANGED <<conns, clientVars, cliRead>>
serverOnMessageLifo(c, raw) ==
  /\ conns[c] = "open"
  /\ ReceivedTotal < MaxServerMsgs
  /\ received' = [received EXCEPT ![c] = Append(@, raw)]
  /\ sent' = [sent EXCEPT ![c] = <<Head(@), Reply(raw)>> \o Tail(@)]
  /\ ev' = Event("serverMessage", raw)
  /\ UNCHANGED <<conns, clientVars, cliRead>>
serverOnMessage(c, raw) ==
  /\ conns[c] = "open"
  /\ ReceivedTotal < MaxServerMsgs
  /\ received' = [received EXCEPT ![c] = Append(@, raw)]
  /\ sent' = [sent EXCEPT ![c] = Append(@, Reply(raw))]
  /\ ev' = Event("serverMessage", raw)
  /\ UNCHANGED <<conns, clientVars, cliRead>>

\* ws.on('close', ...) of connection c: a log line
serverOnClose(c) ==
  /\ conns[c] = "open"
  /\ conns' = [conns EXCEPT ![c] = "closed"]
  /\ ev' = Event("serverClose", NoText)
  /\ UNCHANGED <<received, sent, clientVars, cliRead>>

\* The texts a peer may send to the server.
RequestIds == {Num(1), Num(2)}
ToolParams ==
  { NoParams,
    EmptyParams,
    Params(Str("list_sentences"), Arguments(Absent, Absent, Absent)),
    Params(Str("search_by_sala"), NoArguments),
    Params(Str("search_by_sala"), Arguments(Str("penal"), Absent, Absent)),
    Params(Str("search_by_judge"), Arguments(Absent, Absent, Absent)),
    Params(Str("search_by_judge"), Arguments(Absent, Str("GARCIA"), Absent)),
    Params(Str("get_sentence"), Arguments(Absent, Absent, Num(2))),
    Params(Str("get_sentence"), Arguments(Absent, Absent, Num(999))),
    Params(Str("no_such_tool"), Arguments(Absent, Absent, Absent)) }
ServerInbox ==
  {GarbageText, NullText, NumberText}
  \cup {Text("object", Str("2.0"), m, NoParams, i, Absent, Absent) :
          m \in {Absent, Str("initialize"), Str("tools/list"), Str("foo/bar")},
          i \in RequestIds \cup {Absent}}
  \cup {Text("object", Str("2.0"), Str("tools/call"), p, i, Absent, Absent) :
          p \in ToolParams, i \in RequestIds}

ServerNext ==
  \/ \E c \in Conns : onConnection(c)
  \/ \E c \in Conns : \E raw \in ServerInbox : serverOnMessage(c, raw)
  \/ \E c \in Conns : serverOnClose(c)

ServerSpec == Init /\ [][ServerNext]_vars

(***************************************************************************)
(* Claims about MCPClient                                                  *)
(***************************************************************************)
\* Call c has a record in the pending map.
HasRecord(p, c) == \E k \in DOMAIN p : p[k] = c
\* The last step ran the message listener on an envelope whose id is the number k.
IsReplyTo(e, k) == e.type = "message" /\ e.raw.shape = "object" /\ e.raw.id = Num(k)
\* The promise state a reply asks for: rejected with the reply's error code and
\* message when it carries an error, resolved with its result otherwise.
SettledAs(call, raw) ==
  IF raw.error # Absent
  THEN call.st = "rejected" /\ call.val.t = "RpcError"
       /\ call.val.n = raw.error.n /\ call.val.s = raw.error.s
  ELSE call.st = "resolved" /\ call.val = raw.result

\* C1: whatever the order in which replies reach the message listener, a reply
\* settles the outstanding call whose request carried the reply's id, with the
\* reply's result or error, and leaves every other outstanding call unsettled.
C1_SettlementIsIdKeyed ==
  [][ev'.type = "message" =>
       \A c \in DOMAIN calls :
         calls[c].st = "pending" =>
           IF IsReplyTo(ev', calls[c].id)
           THEN SettledAs(calls'[c], ev'.raw)
           ELSE calls'[c] = calls[c]]_vars

\* Two calls were outstanding and the reply to the later one came first: the
\* later one is resolved by it, the earlier one still waits.
C1_Witness ==
  /\ Len(calls) >= 2
  /\ IsReplyTo(ev, calls[2].id)
  /\ calls[2].st = "resolved" /\ calls[2].invoked = 1
  /\ calls[1].st = "pending" /\ HasRecord(pending, 1)

\* C2: the close listener invokes the reject continuation of each record of the
\* pending map once, with the connection-closed error (so that every call still
\* waiting is rejected with it), touches no other call, and leaves the map empty;
\* no record is rejected by a close twice.
C2_CloseRejectsAllPending ==
  [][ev'.type = "close" =>
       /\ pending' = EmptyMap
       /\ \A c \in DOMAIN calls :
            IF HasRecord(pending, c)
            THEN /\ calls'[c].closeRejects = 1
                 /\ calls'[c].invoked = calls[c].invoked + 1
                 /\ calls[c].st = "pending" =>
                      (calls'[c].st = "rejected" /\ calls'[c].val = ClosedError)
                 /\ calls[c].st # "pending" =>
                      (calls'[c].st = calls[c].st /\ calls'[c].val = calls[c].val)
            ELSE calls'[c] = calls[c]]_vars

\* The transport closed with two calls waiting: both are rejected with the
\* connection-closed error and the map is empty.
C2_Witness ==
  /\ ev.type = "close"
  /\ pending = EmptyMap
  /\ Cardinality({c \in DOMAIN calls :
                    calls[c].st = "rejected" /\ calls[c].val = ClosedError
                    /\ calls[c].closeRejects = 1}) >= 2

\* C3: the promise of every request() invocation, made before or after the
\* close event, is settled once the transport has emitted close. (A WebSocket
\* emits close once and no listener runs after it, so a promise still waiting
\* then can only be settled inside request() itself.)
C3_NoCallerWaitsForever ==
  \A c \in 1..MaxCalls :
    (Len(calls) >= c /\ ws = "closed") ~> (Len(calls) >= c /\ calls[c].st # "pending")

\* A text that is not an envelope: unparsable, or the text of a JSON value that
\* is not an object.
Malformed(raw) == raw.shape \in {"garbage", "null", "number"}

\* C6: the message listener drops a malformed message: it does not throw and
\* leaves the pending map, the calls and nextId as they were.
C6_MalformedIsDropped ==
  [][(ev'.type = "message" /\ Malformed(ev'.raw)) =>
       /\ ~crashed'
       /\ pending' = pending
       /\ calls' = calls
       /\ nextId' = nextId]_vars

\* C7: a message with id 0 settles no call, leaves the pending map as it was
\* and does not throw.
C7_HandshakeIsAbsorbed ==
  [][IsReplyTo(ev', 0) =>
       /\ calls' = calls
       /\ pending' = pending
       /\ ~crashed']_vars

\* A message with id 0 was delivered while two calls were waiting.
C7_Witness ==
  /\ IsReplyTo(ev, 0)
  /\ Cardinality({c \in DOMAIN calls : calls[c].st = "pending" /\ HasRecord(pending, c)}) >= 2

\* C8: the ids request() issues are 1, 2, 3, ... in issue order, no two calls
\* ever share one (settled or not), and every pending record is the record of
\* the one call that was issued its key.
C8_IdsAreSequential ==
  /\ \A c \in DOMAIN calls : calls[c].id = c
  /\ \A c, d \in DOMAIN calls : c # d => calls[c].id # calls[d].id
  /\ \A k \in DOMAIN pending : pending[k] \in DOMAIN calls /\ calls[pending[k]].id = k
  /\ nextId = Len(calls) + 1

\* A call was issued after the first call's reply had been received.
C8_Witness ==
  /\ ev.type = "request"
  /\ Len(calls) >= 3
  /\ calls[1].st = "resolved"
  /\ ~HasRecord(pending, 1)

(***************************************************************************)
(* Claims about the server                                                 *)
(***************************************************************************)
\* The i-th text connection c received, and the text sent in answer to it (the
\* handshake is the first text sent).
RequestAt(c, i) == received[c][i]
ReplyAt(c, i) == sent[c][i + 1]
\* Connection c was sent its handshake and one text per text it received.
OneReplyEach(c) == Len(sent[c]) = (IF conns[c] = "none" THEN 0 ELSE 1) + Len(received[c])
\* The text parses to an envelope that carries an identifier.
HasId(raw) == raw.shape = "object" /\ raw.id # Absent
\* The reply is an RPC error envelope with this code.
IsRpcError(reply, code) == reply.error.t = "errorObject" /\ reply.error.n = code

\* C4: every inbound message that parses to an envelope carrying an identifier
\* is answered by exactly one reply, on the connection it came from, carrying
\* the same id, whatever its method, tool name and arguments.
C4_ReplyEchoesId ==
  \A c \in Conns :
    /\ OneReplyEach(c)
    /\ \A i \in DOMAIN received[c] :
         HasId(RequestAt(c, i)) => ReplyAt(c, i).id = RequestAt(c, i).id

\* A tools/call whose handler fails: params is absent, or the argument the
\* search needs is absent.
ToolFailure(raw) ==
  /\ raw.shape = "object"
  /\ raw.method = Str("tools/call")
  /\ \/ raw.params.t = "absent"
     \/ raw.params.name = Str("search_by_sala") /\ raw.params.arguments.sala = Absent
     \/ raw.params.name = Str("search_by_judge") /\ raw.params.arguments.juez = Absent
\* A successful envelope whose text payload decodes to an object with an error member.
IsSoftError(reply) ==
  /\ reply.error = Absent
  /\ reply.result.t = "content"
  /\ reply.result.text.shape = "object"
  /\ reply.result.text.error.t = "string"

\* C5: a failure inside a tool handler is answered by a successful envelope that
\* echoes the request id and whose text payload decodes to { error: <message> },
\* never by an RPC error envelope.
C5_ToolFailureIsSoftError ==
  \A c \in Conns : \A i \in DOMAIN received[c] :
    ToolFailure(RequestAt(c, i)) =>
      /\ IsSoftError(ReplyAt(c, i))
      /\ ReplyAt(c, i).id = RequestAt(c, i).id

\* The text parses, and the value has none of the three methods (or no method).
UnknownMethod(raw) ==
  /\ raw.shape # "garbage"
  /\ \/ raw.shape # "object"
     \/ raw.method \notin {Str("initialize"), Str("tools/list"), Str("tools/call")}

\* C9: a message that parses and has none of the three methods is answered by
\* an error envelope with code -32601 carrying the request's id.
C9_UnknownMethodIsRejected ==
  \A c \in Conns :
    /\ OneReplyEach(c)
    /\ \A i \in DOMAIN received[c] :
         UnknownMethod(RequestAt(c, i)) =>
           /\ IsRpcError(ReplyAt(c, i), 0 - 32601)
           /\ ReplyAt(c, i).id = RequestAt(c, i).id

\* C10: unparsable text is answered by exactly one error envelope with code
\* -32700 and id null, and only unparsable text is answered with code -32700.
C10_ParseErrorIffUnparsable ==
  \A c \in Conns :
    /\ OneReplyEach(c)
    /\ \A i \in DOMAIN received[c] :
         /\ RequestAt(c, i).shape = "garbage" =>
              (IsRpcError(ReplyAt(c, i), 0 - 32700) /\ ReplyAt(c, i).id = Null)
         /\ IsRpcError(ReplyAt(c, i), 0 - 32700) => RequestAt(c, i).shape = "garbage"

\* The four tool names the switch knows.
KnownTools ==
  {Str("list_sentences"), Str("search_by_sala"), Str("search_by_judge"), Str("get_sentence")}
\* A tools/call whose params carry a name (or none) that is not a known tool.
UnknownToolCall(raw) ==
  /\ raw.shape = "object"
  /\ raw.method = Str("tools/call")
  /\ raw.params.t = "object"
  /\ raw.params.name \notin KnownTools

\* C11: a tools/call whose params.name is not one of the four known tools is
\* answered by a successful envelope (result, no error member) echoing the
\* request id, whose text payload decodes to an object with an error member.
C11_UnknownToolIsSoftError ==
  \A c \in Conns : \A i \in DOMAIN received[c] :
    UnknownToolCall(RequestAt(c, i)) =>
      /\ IsSoftError(ReplyAt(c, i))
      /\ ~IsRpcError(ReplyAt(c, i), 0 - 32601)
      /\ ReplyAt(c, i).id = RequestAt(c, i).id

\* A call of no_such_tool was received and answered.
C11_Witness ==
  \E c \in Conns : \E i \in DOMAIN received[c] :
    /\ RequestAt(c, i).method = Str("tools/call")
    /\ RequestAt(c, i).params.name = Str("no_such_tool")
    /\ ReplyAt(c, i).result.t = "content"
    /\ ReplyAt(c, i).result.text.error = Str("Herramienta desconocida: no_such_tool")

\* The handshake envelope: id 0 and the server's identity as result.
IsHandshake(text) ==
  text.shape = "object" /\ text.id = Num(0) /\ text.result = ServerInfo /\ text.error = Absent

\* C12: an accepted connection is sent one handshake envelope with id 0 as the
\* first text, before the reply to any request; every later text answers a
\* received text, and nothing is sent on a connection that was not accepted.
C12_HandshakeFirst ==
  \A c \in Conns :
    /\ OneReplyEach(c)
    /\ conns[c] = "none" => (sent[c] = <<>> /\ received[c] = <<>>)
    /\ conns[c] # "none" => IsHandshake(sent[c][1])
    /\ \A i \in DOMAIN received[c] :
         RequestAt(c, i).id # Num(0) => ~IsHandshake(ReplyAt(c, i))

\* A connection was accepted, received two requests and answered both after
\* its handshake.
C12_Witness ==
  \E c \in Conns :
    /\ Len(received[c]) = 2
    /\ Len(sent[c]) = 3
    /\ IsHandshake(sent[c][1])
    /\ ReplyAt(c, 1).id = Num(1)

\* JSON.parse of a tool result's text: a member that is not there reads undefined.
ParseToolResult(text) ==
  ToolResult(text.data, FromWire(text.count), FromWire(text.query), FromWire(text.error))
\* A tools/call of get_sentence with arguments { id: k }, k a number.
IsGetSentence(raw) ==
  /\ raw.shape = "object"
  /\ raw.method = Str("tools/call")
  /\ raw.params.t = "object"
  /\ raw.params.name = Str("get_sentence")
  /\ raw.params.arguments.t = "object"
  /\ raw.params.arguments.id.t = "number"

\* C15: get_sentence with { id: k } is answered by a successful envelope whose
\* text payload decodes to { data: r }, r the store record with id k, when there
\* is one, and to { error: "Sentencia k no encontrada" } when there is none; the
\* decoded payload is what the handler returns for the same arguments.
C15_GetSentenceRoundTrip ==
  \A c \in Conns : \A i \in DOMAIN received[c] :
    IsGetSentence(RequestAt(c, i)) =>
      LET k == RequestAt(c, i).params.arguments.id.n
          reply == ReplyAt(c, i)
          hits == {j \in DOMAIN sentencias : sentencias[j].id = k}
      IN /\ reply.error = Absent
         /\ reply.id = RequestAt(c, i).id
         /\ reply.result.t = "content"
         /\ reply.result.text.shape = "object"
         /\ hits # {} =>
              /\ \E j \in hits : reply.result.text.data = ObjectData(sentencias[j])
              /\ reply.result.text.error = Absent
         /\ hits = {} =>
              /\ reply.result.text.data = NoData
              /\ reply.result.text.error = Str("Sentencia " \o ToString(k) \o " no encontrada")
         /\ ParseToolResult(reply.result.text)
              = GetSentence(RequestAt(c, i).params.arguments).result

\* get_sentence was called with id 2 and with id 999 on one connection.
C15_Witness ==
  \E c \in Conns :
    /\ Len(received[c]) = 2
    /\ IsGetSentence(RequestAt(c, 1)) /\ RequestAt(c, 1).params.arguments.id = Num(2)
    /\ ReplyAt(c, 1).result.text.data = ObjectData(sentencias[2])
    /\ IsGetSentence(RequestAt(c, 2)) /\ RequestAt(c, 2).params.arguments.id = Num(999)
    /\ ReplyAt(c, 2).result.text.error = Str("Sentencia 999 no encontrada")

Answers(reply, raw) ==
  \/ (raw.shape = "object" /\ reply.id = raw.id /\ ~IsRpcError(reply, 0 - 32700))
  \/ (raw.shape = "number" /\ reply.id = Absent)
  \/ (reply.id = Null /\ IsRpcError(reply, 0 - 32700))

\* C19: on a connection the i-th reply sent answers the i-th text received: a
\* text is handled, its reply sent, before the next text is handled.
C19_RepliesInArrivalOrder ==
  /\ \A c \in Conns : OneReplyEach(c)
  /\ \A c \in Conns : \A i \in DOMAIN received[c] : Answers(ReplyAt(c, i), RequestAt(c, i))

\* Two requests with ids 1 and 2 arrived in that order on one connection and
\* were answered in that order.
C19_Witness ==
  \E c \in Conns :
    /\ Len(received[c]) = 2
    /\ RequestAt(c, 1).id = Num(1) /\ RequestAt(c, 2).id = Num(2)
    /\ ReplyAt(c, 1).id = Num(1) /\ ReplyAt(c, 2).id = Num(2)

(***************************************************************************)
(* Further claims about MCPClient                                          *)
(***************************************************************************)
\* C13: a record is never double-settled: over a call's whole life (a failing
\* send, its reply, duplicate or late replies with its id, the close event) the
\* resolve and reject continuations stored in its record are invoked at most
\* once in total.
C13_NeverDoubleSettled ==
  \A c \in DOMAIN calls : calls[c].invoked <= 1

\* C14: the promise request() returns is never settled inside request(),
\* whatever the state of the transport it is invoked in: a settled promise was
\* settled by the message listener or by the close listener.
C14_NeverSettledInRequest ==
  \A c \in DOMAIN calls : ~calls[c].sync

\* The text is an envelope whose id is the key of no record of the map p.
HasNoRecord(raw, p) ==
  /\ raw.shape = "object"
  /\ ~(raw.id.t = "number" /\ raw.id.n \in DOMAIN p)

\* C16: a reply whose id has no pending record (unknown id, null id, duplicate
\* or late reply of a settled call) is ignored: no promise is settled, the
\* pending map is unchanged and nothing is thrown.
C16_UnmatchedReplyIsIgnored ==
  [][(ev'.type = "message" /\ HasNoRecord(ev'.raw, pending)) =>
       /\ calls' = calls
       /\ pending' = pending
       /\ ~crashed']_vars

\* A second reply with the id of a call that an earlier, different reply had
\* resolved was delivered while another call was waiting.
C16_Witness ==
  /\ Len(calls) >= 2
  /\ IsReplyTo(ev, calls[1].id)
  /\ ev.raw.error = Absent
  /\ calls[1].st = "resolved" /\ calls[1].val # ev.raw.result /\ calls[1].invoked = 1
  /\ ~HasRecord(pending, 1)
  /\ calls[2].st = "pending" /\ HasRecord(pending, 2)

\* C17: connect() registers the message listener before its promise can
\* resolve; the promise is settled at most once, resolved by an open that comes
\* before any error and rejected by an error that comes before open; an error
\* settles and removes no pending call.
C17_ConnectSettlesOnce ==
  [][/\ connectP' # "none" => listening'
     /\ connectP \in {"resolved", "rejected"} => connectP' = connectP
     /\ connectP = "pending" =>
          connectP' = CASE ev'.type = "open" -> "resolved"
                        [] ev'.type = "error" -> "rejected"
                        [] OTHER -> "pending"
     /\ ev'.type = "error" => (calls' = calls /\ pending' = pending)]_vars

\* The transport reported an error after open, with a call waiting: connect()'s
\* promise stays resolved and the call still waits, its record in the map.
C17_Witness ==
  /\ ev.type = "error"
  /\ connectP = "resolved"
  /\ listening
  /\ \E c \in DOMAIN calls : calls[c].st = "pending" /\ HasRecord(pending, c)

(***************************************************************************)
(* One MCPClient and the server over connection 1, which delivers every    *)
(* text in order and never closes: the client's outbox is what the server  *)
(* receives, what the server sends is what the client's listener is given. *)
(***************************************************************************)
\* The (method, params) pairs the client calls request() with.
ComposedInputs ==
  { <<Str("initialize"), UndefinedParams>>,
    <<Str("tools/list"), UndefinedParams>>,
    <<Str("foo/bar"), UndefinedParams>>,
    <<Str("tools/call"), UndefinedParams>>,
    <<Str("tools/call"), Params(Str("get_sentence"), Arguments(Absent, Absent, Num(2)))>>,
    <<Str("tools/call"), Params(Str("search_by_sala"), NoArguments)>> }

\* The server accepts the connection the client's connect() asked for.
upgrade == ws = "connecting" /\ onConnection(1)
\* The client's transport reports open once the server has accepted.
established == conns[1] = "open" /\ onOpen
\* request() on the open connection.
call(method, params) == ws = "open" /\ request(method, params)
\* The next text of the client's outbox reaches the server's message handler.
toServer ==
  /\ Len(received[1]) < Len(outbox)
  /\ serverOnMessage(1, outbox[Len(received[1]) + 1])
\* The next text the server sent reaches the client's message listener.
toClient ==
  /\ cliRead < Len(sent[1])
  /\ handleMessage(sent[1][cliRead + 1])
  /\ cliRead' = cliRead + 1
  /\ UNCHANGED serverVars

ComposedNext ==
  \/ connect
  \/ upgrade
  \/ established
  \/ \E i \in ComposedInputs : call(i[1], i[2])
  \/ toServer
  \/ toClient

ComposedSpec ==
  Init /\ [][ComposedNext]_vars /\ WF_vars(toServer) /\ WF_vars(toClient)

\* C20: in the composed system every request() is settled: once the client's
\* listener has been given the server's answer to a call (the text the server
\* sent for the call's request, after the handshake), the call is settled.
C20_EveryRequestIsSettled ==
  \A c \in DOMAIN calls : cliRead >= c + 1 => calls[c].st # "pending"

====
